---- MODULE Spec2Model ----
(***************************************************************************)
(* Model of mapoutvisualiser.py: main() asks for a file, parse_map_file()  *)
(* decodes the navmesh of a .vpa buffer by pointer chasing (header ->      *)
(* navmesh descriptor -> vertex table -> TriInfo -> triangle table), and   *)
(* visualize_navmesh() turns the decoded triangles into polygons.          *)
(*                                                                         *)
(* The buffer is a real byte sequence; every read decodes little-endian    *)
(* bytes at an absolute offset and fails (struct.error) when the record    *)
(* does not fit.  Python values are modelled as tagged records (None, a    *)
(* list), a float as an exact dyadic rational m * 2^e.                     *)
(***************************************************************************)
EXTENDS Integers, Sequences, FiniteSets

\* ------------------------------------------------------------------ bounds
\* Largest vertex count and triangle count of the generated input files.
MaxVertexCount == 3
MaxTriCount == 2

\* ------------------------------------------------- struct sizes (calcsize)
\* struct.calcsize('<4s 12x I I I 7I I')
header_size == 60
\* struct.calcsize('<10x H f 8x I I')
navmesh_size == 32
\* struct.calcsize('<hhh2x')
vertex_size == 8
\* struct.calcsize('<8x I I')
tri_info_size == 16
\* struct.calcsize('<3H 3h I')
tri_size == 16

\* ---------------------------------------------------------- Python values
None == [tag |-> "None"]
List(items) == [tag |-> "list", items |-> items]
\* bool(v) of a value that is None or a list
Truthy(v) == v.tag = "list" /\ v.items # <<>>

\* b'MAP1'
MAP1 == <<77, 65, 80, 49>>

\* --------------------------------------------------------- little-endian
\* Byte at absolute offset o of buffer c (offsets are 0-based).
ByteAt(c, o) == c[o + 1]
\* 'H': unsigned 16-bit
U16(c, o) == ByteAt(c, o) + 256 * ByteAt(c, o + 1)
\* 'h': signed 16-bit, two's complement
S16(c, o) == LET u == U16(c, o) IN IF u >= 32768 THEN u - 65536 ELSE u
\* 'I': unsigned 32-bit
U32(c, o) == ByteAt(c, o) + 256 * ByteAt(c, o + 1) + 65536 * ByteAt(c, o + 2)
               + 16777216 * ByteAt(c, o + 3)
\* '4s': four raw bytes
Bytes4(c, o) == <<ByteAt(c, o), ByteAt(c, o + 1), ByteAt(c, o + 2), ByteAt(c, o + 3)>>

\* A finite dyadic rational m * 2^e, normalised: m odd, or m = 0 and e = 0.
RECURSIVE Dyadic(_, _)
Dyadic(m, e) == IF m = 0 THEN [kind |-> "fin", m |-> 0, e |-> 0]
                ELSE IF m % 2 = 0 THEN Dyadic(m \div 2, e + 1)
                ELSE [kind |-> "fin", m |-> m, e |-> e]

\* 'f': IEEE-754 single precision, decoded from its four bytes.
F32(c, o) ==
    LET b2 == ByteAt(c, o + 2)
        b3 == ByteAt(c, o + 3)
        sign == IF b3 \div 128 = 1 THEN -1 ELSE 1
        exp == (b3 % 128) * 2 + b2 \div 128
        mant == (b2 % 128) * 65536 + ByteAt(c, o + 1) * 256 + ByteAt(c, o)
    IN  IF exp = 255 THEN (IF mant = 0 THEN [kind |-> "inf", m |-> sign, e |-> 0]
                                       ELSE [kind |-> "nan", m |-> 0, e |-> 0])
        ELSE IF exp = 0 THEN Dyadic(sign * mant, -149)
        ELSE Dyadic(sign * (8388608 + mant), exp - 150)

\* int * float, as in v_data[0] * scale
Mul(k, f) ==
    IF f.kind = "fin" THEN Dyadic(k * f.m, f.e)
    ELSE IF f.kind = "nan" \/ k = 0 THEN [kind |-> "nan", m |-> 0, e |-> 0]
    ELSE [kind |-> "inf", m |-> (IF k < 0 THEN -f.m ELSE f.m), e |-> 0]

\* struct.unpack_from(fmt, content, offset) raises struct.error unless the
\* buffer holds calcsize(fmt) bytes from offset on.
CanUnpack(c, size, o) == o + size <= Len(c)

\* ------------------------------------------------------------ the records
\* struct.unpack_from('<4s 12x I I I 7I I', content, 0): a 12-tuple, the
\* magic first (Python index 0 is index 1 here).
UnpackHeader(c) ==
    <<Bytes4(c, 0)>> \o [k \in 1..11 |-> U32(c, 16 + 4 * (k - 1))]

\* struct.unpack_from('<10x H f 8x I I', content, base)
UnpackNavmesh(c, base) ==
    <<U16(c, base + 10), F32(c, base + 12), U32(c, base + 24), U32(c, base + 28)>>

\* struct.unpack_from('<hhh2x', content, o)
UnpackVertex(c, o) == <<S16(c, o), S16(c, o + 2), S16(c, o + 4)>>

\* struct.unpack_from('<8x I I', content, o)
UnpackTriInfo(c, o) == <<U32(c, o + 8), U32(c, o + 12)>>

\* struct.unpack_from('<3H 3h I', content, o)
UnpackTri(c, o) ==
    <<U16(c, o), U16(c, o + 2), U16(c, o + 4),
      S16(c, o + 6), S16(c, o + 8), S16(c, o + 10), U32(c, o + 12)>>

\* class Vertex
Vertex(x, y, z) == [x |-> x, y |-> y, z |-> z]

\* A mask one bit too wide: passable would overlap battle.
TriPassable_8bits(data) == data % 256
\* data & 0b01111111
TriPassable(data) == data % 128
\* (data >> 7) & 0b11
TriBattle(data) == (data \div 128) % 4
\* (data >> 11) & 0b11
TriLocation(data) == (data \div 2048) % 4
\* (data >> 15) & 0b11
TriSoundType(data) == (data \div 32768) % 4

\* class Tri: Tri.__init__(v_indices, n_indices, data)
Tri(v_indices, n_indices, data) ==
    [vertex_indices |-> v_indices, neighbour_indices |-> n_indices, data |-> data,
     passable |-> TriPassable(data), battle |-> TriBattle(data),
     location |-> TriLocation(data), soundType |-> TriSoundType(data)]

\* range(48, 63): the script range one short.
PASSABILITY_COLORS_Short ==
    [p \in {0, 1, 2, 14} \cup 48..62 |->
        CASE p = 0 -> "green" [] p = 1 -> "red" [] p = 2 -> "orange"
          [] p = 14 -> "yellow" [] OTHER -> "purple"]
\* PASSABILITY_COLORS: the dict literal, range(48, 64) excludes 64.
PASSABILITY_COLORS ==
    [p \in {0, 1, 2, 14} \cup 48..63 |->
        CASE p = 0 -> "green" [] p = 1 -> "red" [] p = 2 -> "orange"
          [] p = 14 -> "yellow" [] OTHER -> "purple"]
DEFAULT_COLOR == "gray"
\* PASSABILITY_COLORS.get(pass_val, DEFAULT_COLOR)
get_passability_color(pass_val) ==
    IF pass_val \in DOMAIN PASSABILITY_COLORS THEN PASSABILITY_COLORS[pass_val]
    ELSE DEFAULT_COLOR

\* Only the first three bytes of the tag compared.
MagicOk_Prefix(magic) == SubSeq(magic, 1, 3) = SubSeq(MAP1, 1, 3)
\* `magic != b'MAP1'` is false
MagicOk(magic) == magic = MAP1
\* header_data[1]: the first 32-bit field taken for the navmesh pointer.
NavmeshBaseAddr_First(header_data) == header_data[2]
\* The header field that holds the navmesh descriptor's address: header_data[3].
NavmeshBaseAddr(header_data) == header_data[4]
\* navmesh_base_addr + vertices_ptr
VerticesAbsAddr(base, ptr) == base + ptr
\* navmesh_base_addr + tri_info_ptr
TriInfoAbsAddr(base, ptr) == base + ptr
\* tris_ptr used as an absolute file offset.
TrisAbsAddr_Absolute(base, ptr) == ptr
\* navmesh_base_addr + tris_ptr
TrisAbsAddr(base, ptr) == base + ptr
\* The record stride without its two bytes of padding.
VertexOffset_NoPad(abs_addr, i) == abs_addr + i * 6
\* offset = vertices_abs_addr + i * vertex_size
VertexOffset(abs_addr, i) == abs_addr + i * vertex_size
\* offset = tris_abs_addr + i * tri_size
TriOffset(abs_addr, i) == abs_addr + i * tri_size

\* `for i in range(vertex_count)` has run out after n turns
VertexLoopDone(n, count) == n >= count
\* range(tri_count - 1): the loop stops one record early.
TriLoopDone_OneShort(n, count) == n >= count - 1
\* `for i in range(tri_count)` has run out after n turns
TriLoopDone(n, count) == n >= count

\* What parse_map_file returns from each except clause / the magic check.
ReturnBadMagic(vs, ts) == <<None, None>>
\* The lists filled so far handed back from the except clause.
ExceptStructError_Partial(vs, ts) == <<List(vs), List(ts)>>
ExceptStructError(vs, ts) == <<None, None>>
ExceptFileNotFound(vs, ts) == <<None, None>>
ExceptException(vs, ts) == <<None, None>>
\* return vertices, tris
ReturnMesh(vs, ts) == <<List(vs), List(ts)>>

\* `if vertices is not None and tris is not None:`
MainAccepts_NotNone(r) == r[1].tag = "list" /\ r[2].tag = "list"
\* main: `if vertices and tris:`
MainAccepts(r) == Truthy(r[1]) /\ Truthy(r[2])
\* visualize_navmesh: `if not vertices or not tris:`
NoData(vs, ts) == vs = <<>> \/ ts = <<>>


\* ------------------------------------------------------------ input files
\* The files main() may be given are written field by field, the way the
\* format lays them out, and then cut to a length.  Padding is junk (0xA5).
Pad(n) == [k \in 1..n |-> 165]
LE16(v) == LET u == (v + 65536) % 65536 IN <<u % 256, u \div 256>>
LE32(v) == <<v % 256, (v \div 256) % 256, (v \div 65536) % 256, v \div 16777216>>

Magics == {MAP1, <<77, 65, 80, 50>>}
Bases == {header_size, header_size + 8}
\* Which table comes first after the descriptor: vertices or triangles.
Orders == {"vt", "tv"}
\* 1: vertices 0,1,2, passable.  2: last index one past the end, 0x00008001.
\* 3: vertices 2,1,0, bits 7-8 set, bit 20 set, passable 48.
TriKinds == {1, 2, 3}
TriSpec(kind, vc) ==
    CASE kind = 1 -> [v |-> <<0, 1, 2>>, n |-> <<-1, 1, 0>>, data |-> 0]
      [] kind = 2 -> [v |-> <<0, 1, vc>>, n |-> <<0, -1, -1>>, data |-> 32769]
      [] OTHER    -> [v |-> <<2, 1, 0>>, n |-> <<1, 0, -32768>>, data |-> 1048576 + 384 + 48]
\* Raw fixed-point components of vertex i (0-based).
RawVertex(i) == <<i + 1, -3 * (i + 1), 100 * i>>
\* 1.0f after the header, 0.5f behind a gap.
ScaleBytes(f) == IF f.base = header_size THEN <<0, 0, 128, 63>> ELSE <<0, 0, 0, 63>>

\* Junk bytes between the records of a file whose triangles come first.
Gap(f) == IF f.order = "tv" THEN 8 ELSE 0
TriCountOf(f) == Len(f.tris)
VerticesPtrOf(f) ==
    IF f.order = "vt" THEN navmesh_size + Gap(f)
    ELSE navmesh_size + Gap(f) + tri_info_size + tri_size * TriCountOf(f) + Gap(f)
TriInfoPtrOf(f) ==
    IF f.order = "vt" THEN navmesh_size + Gap(f) + vertex_size * f.vc + Gap(f)
    ELSE navmesh_size + Gap(f)
TrisPtrOf(f) == TriInfoPtrOf(f) + tri_info_size

PackHeader(f) ==
    f.magic \o Pad(12) \o LE32(1) \o LE32(2) \o LE32(f.base)
      \o LE32(3) \o LE32(4) \o LE32(5) \o LE32(6) \o LE32(7) \o LE32(8) \o LE32(9)
      \o LE32(10)
PackNavmesh(f) ==
    Pad(10) \o LE16(f.vc) \o ScaleBytes(f) \o Pad(8) \o LE32(VerticesPtrOf(f))
      \o LE32(TriInfoPtrOf(f))
PackVertex(i) ==
    LE16(RawVertex(i)[1]) \o LE16(RawVertex(i)[2]) \o LE16(RawVertex(i)[3]) \o Pad(2)
PackTriInfo(f) == Pad(8) \o LE32(TriCountOf(f)) \o LE32(TrisPtrOf(f))
PackTri(t) ==
    LE16(t.v[1]) \o LE16(t.v[2]) \o LE16(t.v[3])
      \o LE16(t.n[1]) \o LE16(t.n[2]) \o LE16(t.n[3]) \o LE32(t.data)

\* The records of file f, each with the absolute offset it is written at.
Patches(f) ==
    <<[at |-> 0, bytes |-> PackHeader(f)], [at |-> f.base, bytes |-> PackNavmesh(f)]>>
      \o [i \in 1..f.vc |->
            [at |-> f.base + VerticesPtrOf(f) + vertex_size * (i - 1),
             bytes |-> PackVertex(i - 1)]]
      \o <<[at |-> f.base + TriInfoPtrOf(f), bytes |-> PackTriInfo(f)]>>
      \o [i \in 1..TriCountOf(f) |->
            [at |-> f.base + TrisPtrOf(f) + tri_size * (i - 1),
             bytes |-> PackTri(TriSpec(f.tris[i], f.vc))]]

SetMax(S) == CHOOSE x \in S : \A y \in S : y <= x
\* Ends of the records of f: a file cut before one of them loses that record.
RecordEnds(f) ==
    LET ps == Patches(f) IN {ps[k].at + Len(ps[k].bytes) : k \in 1..Len(ps)}
FullLength(f) == SetMax(RecordEnds(f))
\* The lengths a file is cut to: at and one byte short of every record end,
\* and inside the header.
Lengths(f) ==
    LET ends == RecordEnds(f) IN {0, 3, 4, header_size - 1} \cup ends \cup {e - 1 : e \in ends}

\* f.read(): the bytes of file f.
FileBytes(f) ==
    LET ps == Patches(f)
        Covering(o) == {k \in 1..Len(ps) : ps[k].at <= o /\ o < ps[k].at + Len(ps[k].bytes)}
    IN  [o1 \in 1..f.len |->
            IF Covering(o1 - 1) = {} THEN 165
            ELSE LET k == SetMax(Covering(o1 - 1)) IN ps[k].bytes[o1 - ps[k].at]]

VpaShapes ==
    [kind : {"vpa"}, magic : Magics, base : Bases, order : Orders,
     vc : 0..MaxVertexCount,
     tris : UNION {[1..n -> TriKinds] : n \in 0..MaxTriCount}, len : {0}]
\* The dialog is cancelled, or the path names no file, or the open fails.
NoFile(kind) ==
    [kind |-> kind, magic |-> MAP1, base |-> header_size, order |-> "vt", vc |-> 0,
     tris |-> <<>>, len |-> 0]
NoFileKinds == {"cancelled", "missing", "unreadable"}

\* ------------------------------------------------------------------ state
VARIABLES
    file,               \* the file picked in the dialog
    pc,                 \* where main / parse_map_file / visualize_navmesh stands
    content,            \* parse_map_file: content = f.read()
    header_data, navmesh_base_addr,
    vertex_count, scale, vertices_ptr, tri_info_ptr,
    vertices_abs_addr, offset, vertices,
    tri_info_abs_addr, tri_count, tris_ptr, tris_abs_addr, tris,
    err,                \* the failure parse_map_file reported ("" for none)
    ret,                \* what parse_map_file returned
    viz_pos, polygons, colors,   \* visualize_navmesh's loop
    outcome             \* how main ended

hdrVars == <<header_data, navmesh_base_addr>>
navVars == <<vertex_count, scale, vertices_ptr, tri_info_ptr, vertices_abs_addr>>
tinfoVars == <<tri_info_abs_addr, tri_count, tris_ptr, tris_abs_addr>>
vizVars == <<viz_pos, polygons, colors>>
vars == <<file, pc, content, hdrVars, navVars, offset, vertices, tinfoVars, tris,
          err, ret, vizVars, outcome>>

Unset == -1

Start(f) ==
    /\ file = f
    /\ content = <<>>
    /\ header_data = <<>>
    /\ navmesh_base_addr = Unset
    /\ vertex_count = Unset
    /\ scale = None
    /\ vertices_ptr = Unset
    /\ tri_info_ptr = Unset
    /\ vertices_abs_addr = Unset
    /\ offset = Unset
    /\ vertices = <<>>
    /\ tri_info_abs_addr = Unset
    /\ tri_count = Unset
    /\ tris_ptr = Unset
    /\ tris_abs_addr = Unset
    /\ tris = <<>>
    /\ err = ""
    /\ ret = <<>>
    /\ viz_pos = 0
    /\ polygons = <<>>
    /\ colors = <<>>
    /\ outcome = ""

\* A .vpa file of some shape cut to one of its lengths, or no file.
Init ==
    \/ \E g \in VpaShapes : \E l \in Lengths(g) :
          Start([g EXCEPT !.len = l]) /\ pc = "dialog"
    \/ \E k \in NoFileKinds : Start(NoFile(k)) /\ pc = "dialog"

\* parse_map_file leaves through an except clause (or the magic check).
Fails(kind, r) ==
    /\ err' = kind
    /\ ret' = r
    /\ pc' = "returned"

\* ------------------------------------------------------------------- main
\* filedialog.askopenfilename and `if not file_path`
AskOpenFilename ==
    /\ pc = "dialog"
    /\ IF file.kind = "cancelled"
       THEN pc' = "exit" /\ outcome' = "No file selected"
       ELSE pc' = "open" /\ outcome' = outcome
    /\ UNCHANGED <<file, content, hdrVars, navVars, offset, vertices, tinfoVars, tris,
                   err, ret, vizVars>>

\* ---------------------------------------------------------- parse_map_file
\* open(file_path, 'rb') and f.read()
OpenAndRead ==
    /\ pc = "open"
    /\ CASE file.kind = "missing" ->
              Fails("FileNotFoundError", ExceptFileNotFound(vertices, tris))
              /\ content' = content
         [] file.kind = "unreadable" ->
              Fails("Exception", ExceptException(vertices, tris)) /\ content' = content
         [] OTHER ->
              content' = FileBytes(file) /\ pc' = "header" /\ UNCHANGED <<err, ret>>
    /\ UNCHANGED <<file, hdrVars, navVars, offset, vertices, tinfoVars, tris, vizVars,
                   outcome>>

\* header_data = struct.unpack_from(header_format, content, 0)
ReadHeader ==
    /\ pc = "header"
    /\ IF CanUnpack(content, header_size, 0)
       THEN /\ header_data' = UnpackHeader(content)
            /\ pc' = "magic"
            /\ UNCHANGED <<err, ret>>
       ELSE /\ Fails("struct.error", ExceptStructError(vertices, tris))
            /\ header_data' = header_data
    /\ UNCHANGED <<file, content, navmesh_base_addr, navVars, offset, vertices, tinfoVars,
                   tris, vizVars, outcome>>

\* `if magic != b'MAP1'`, then navmesh_base_addr = header_data[3]
CheckMagic ==
    /\ pc = "magic"
    /\ IF ~MagicOk(header_data[1])
       THEN /\ Fails("BadMagic", ReturnBadMagic(vertices, tris))
            /\ navmesh_base_addr' = navmesh_base_addr
       ELSE /\ navmesh_base_addr' = NavmeshBaseAddr(header_data)
            /\ pc' = "navmesh"
            /\ UNCHANGED <<err, ret>>
    /\ UNCHANGED <<file, content, header_data, navVars, offset, vertices, tinfoVars, tris,
                   vizVars, outcome>>

\* The descriptor at navmesh_base_addr, then vertices = [] and vertices_abs_addr.
ReadNavmesh ==
    /\ pc = "navmesh"
    /\ IF CanUnpack(content, navmesh_size, navmesh_base_addr)
       THEN LET navmesh_data == UnpackNavmesh(content, navmesh_base_addr) IN
            /\ vertex_count' = navmesh_data[1]
            /\ scale' = navmesh_data[2]
            /\ vertices_ptr' = navmesh_data[3]
            /\ tri_info_ptr' = navmesh_data[4]
            /\ vertices_abs_addr' = VerticesAbsAddr(navmesh_base_addr, navmesh_data[3])
            /\ pc' = "vertices"
            /\ UNCHANGED <<err, ret>>
       ELSE /\ Fails("struct.error", ExceptStructError(vertices, tris))
            /\ UNCHANGED navVars
    /\ UNCHANGED <<file, content, hdrVars, offset, vertices, tinfoVars, tris, vizVars,
                   outcome>>

\* One turn of `for i in range(vertex_count)`
ReadVertex ==
    /\ pc = "vertices"
    /\ ~VertexLoopDone(Len(vertices), vertex_count)
    /\ offset' = VertexOffset(vertices_abs_addr, Len(vertices))
    /\ IF CanUnpack(content, vertex_size, offset')
       THEN LET v_data == UnpackVertex(content, offset') IN
            /\ vertices' = Append(vertices,
                   Vertex(Mul(v_data[1], scale), Mul(v_data[2], scale),
                          Mul(v_data[3], scale)))
            /\ UNCHANGED <<pc, err, ret>>
       ELSE /\ Fails("struct.error", ExceptStructError(vertices, tris))
            /\ vertices' = vertices
    /\ UNCHANGED <<file, content, hdrVars, navVars, tinfoVars, tris, vizVars, outcome>>

\* After the vertex loop: TriInfo at navmesh_base_addr + tri_info_ptr, tris = [].
ReadTriInfo ==
    /\ pc = "vertices"
    /\ VertexLoopDone(Len(vertices), vertex_count)
    /\ tri_info_abs_addr' = TriInfoAbsAddr(navmesh_base_addr, tri_info_ptr)
    /\ IF CanUnpack(content, tri_info_size, tri_info_abs_addr')
       THEN LET tri_info_data == UnpackTriInfo(content, tri_info_abs_addr') IN
            /\ tri_count' = tri_info_data[1]
            /\ tris_ptr' = tri_info_data[2]
            /\ tris_abs_addr' = TrisAbsAddr(navmesh_base_addr, tri_info_data[2])
            /\ pc' = "tris"
            /\ UNCHANGED <<err, ret>>
       ELSE /\ Fails("struct.error", ExceptStructError(vertices, tris))
            /\ UNCHANGED <<tri_count, tris_ptr, tris_abs_addr>>
    /\ UNCHANGED <<file, content, hdrVars, navVars, offset, vertices, tris, vizVars,
                   outcome>>

\* One turn of `for i in range(tri_count)`
ReadTri ==
    /\ pc = "tris"
    /\ ~TriLoopDone(Len(tris), tri_count)
    /\ offset' = TriOffset(tris_abs_addr, Len(tris))
    /\ IF CanUnpack(content, tri_size, offset')
       THEN LET t_data == UnpackTri(content, offset') IN
            /\ tris' = Append(tris, Tri(SubSeq(t_data, 1, 3), SubSeq(t_data, 4, 6),
                                        t_data[7]))
            /\ UNCHANGED <<pc, err, ret>>
       ELSE /\ Fails("struct.error", ExceptStructError(vertices, tris))
            /\ tris' = tris
    /\ UNCHANGED <<file, content, hdrVars, navVars, vertices, tinfoVars, vizVars,
                   outcome>>

\* return vertices, tris
ReturnTris ==
    /\ pc = "tris"
    /\ TriLoopDone(Len(tris), tri_count)
    /\ ret' = ReturnMesh(vertices, tris)
    /\ pc' = "returned"
    /\ UNCHANGED <<file, content, hdrVars, navVars, offset, vertices, tinfoVars, tris,
                   err, vizVars, outcome>>

\* ------------------------------------------------------- main, continued
\* vertices, tris = parse_map_file(file_path); `if vertices and tris:`
MainCheck ==
    /\ pc = "returned"
    /\ IF MainAccepts(ret)
       THEN pc' = "visualize" /\ outcome' = outcome
       ELSE pc' = "exit" /\ outcome' = "Failed to parse map file"
    /\ UNCHANGED <<file, content, hdrVars, navVars, offset, vertices, tinfoVars, tris,
                   err, ret, vizVars>>

\* ------------------------------------------------------ visualize_navmesh
\* Called with the returned lists: the guard, then polygons = [], colors = [].
VisualizeEnter ==
    /\ pc = "visualize"
    /\ IF NoData(ret[1].items, ret[2].items)
       THEN pc' = "exit" /\ outcome' = "No data to visualize"
       ELSE pc' = "polygons" /\ outcome' = outcome
    /\ viz_pos' = 1
    /\ UNCHANGED <<file, content, hdrVars, navVars, offset, vertices, tinfoVars, tris,
                   err, ret, polygons, colors>>

\* vertices[i] of a Python list: IndexError unless i < len (i is unsigned here).
IndexOk(vs, i) == i < Len(vs)
\* `any(i >= len(vertices) for i in tri.vertex_indices)`
HasInvalidIndex(vs, tri) == \E k \in 1..3 : tri.vertex_indices[k] >= Len(vs)

\* One turn of `for tri in tris`: points, the index check, polygon and color.
VisualizeTri ==
    /\ pc = "polygons"
    /\ viz_pos <= Len(ret[2].items)
    /\ LET vs == ret[1].items
           tri == ret[2].items[viz_pos]
       IN  IF \E k \in 1..3 : ~IndexOk(vs, tri.vertex_indices[k])
           THEN \* points = [vertices[i] ...] raises, and nothing catches it
                /\ pc' = "exit"
                /\ outcome' = "IndexError"
                /\ UNCHANGED vizVars
           ELSE LET points == [k \in 1..3 |-> vs[tri.vertex_indices[k] + 1]] IN
                /\ IF HasInvalidIndex(vs, tri)
                   THEN UNCHANGED <<polygons, colors>>
                   ELSE /\ polygons' = Append(polygons,
                               [k \in 1..3 |-> <<points[k].x, points[k].y, points[k].z>>])
                        /\ colors' = Append(colors, get_passability_color(tri.passable))
                /\ viz_pos' = viz_pos + 1
                /\ UNCHANGED <<pc, outcome>>
    /\ UNCHANGED <<file, content, hdrVars, navVars, offset, vertices, tinfoVars, tris,
                   err, ret>>

\* Poly3DCollection(polygons, ...), the axes, plt.show()
Show ==
    /\ pc = "polygons"
    /\ viz_pos > Len(ret[2].items)
    /\ pc' = "exit"
    /\ outcome' = "shown"
    /\ UNCHANGED <<file, content, hdrVars, navVars, offset, vertices, tinfoVars, tris,
                   err, ret, vizVars>>

Next ==
    \/ AskOpenFilename
    \/ OpenAndRead
    \/ ReadHeader
    \/ CheckMagic
    \/ ReadNavmesh
    \/ ReadVertex
    \/ ReadTriInfo
    \/ ReadTri
    \/ ReturnTris
    \/ MainCheck
    \/ VisualizeEnter
    \/ VisualizeTri
    \/ Show

Spec == Init /\ [][Next]_vars

\* ------------------------------------------------- Tri and the colour table
\* Tri.__init__ and get_passability_color on attribute words of their own:
\* every passable value, under patterns of the bits above it (bits 7..30).
HighBits == {0, 1, 2, 3, 4, 16, 48, 64, 256, 768, 1024, 8388608, 16777215}
AttrWords == {p + 128 * h : p \in 0..127, h \in HighBits}
AttrFile(w) == [kind |-> "attrs", data |-> w]

InitTri == \E w \in AttrWords : Start(AttrFile(w)) /\ pc = "tri"

\* Tri(vertex_indices, neighbour_indices, tri_data_bitfield)
NewTri ==
    /\ pc = "tri"
    /\ tris' = <<Tri(<<0, 1, 2>>, <<-1, -1, -1>>, file.data)>>
    /\ pc' = "color"
    /\ UNCHANGED <<file, content, hdrVars, navVars, offset, vertices, tinfoVars, err, ret,
                   vizVars, outcome>>

\* colors.append(get_passability_color(tri.passable))
ColorOfTri ==
    /\ pc = "color"
    /\ colors' = Append(colors, get_passability_color(tris[1].passable))
    /\ pc' = "exit"
    /\ UNCHANGED <<file, content, hdrVars, navVars, offset, vertices, tinfoVars, tris,
                   err, ret, viz_pos, polygons, outcome>>

NextTri == NewTri \/ ColorOfTri

SpecTri == InitTri /\ [][NextTri]_vars


\* ============================================================ properties
NonePair == <<[tag |-> "None"], [tag |-> "None"]>>
\* parse_map_file has returned (ret is its result).
Returned == ret # <<>>
\* The file was read and is a generated .vpa file.
IsVpa == file.kind = "vpa" /\ pc \notin {"dialog", "open"}

\* C1: whatever parse_map_file returns is either (None, None) or the pair of
\* complete lists (vertex_count vertices, tri_count triangles) of a decode in
\* which nothing failed; every failure returns (None, None), however many
\* records were decoded before it.
C1_AllOrNothing ==
    Returned =>
        /\ \/ ret = NonePair /\ err # ""
           \/ /\ err = ""
              /\ ret = <<[tag |-> "list", items |-> vertices],
                         [tag |-> "list", items |-> tris]>>
              /\ Len(vertices) = vertex_count
              /\ Len(tris) = tri_count
        /\ (err # "" => ret = NonePair)

\* A read failed after vertices and a triangle had been decoded.
C1_Witness ==
    /\ Returned
    /\ err = "struct.error"
    /\ Len(vertices) >= 2
    /\ Len(tris) >= 1
    /\ ret = NonePair

\* C2 as stated: any buffer of at least 4 bytes whose first four bytes are not
\* "MAP1" fails with BadMagic.
C2_BadMagicAnyLength ==
    (IsVpa /\ Returned /\ Len(content) >= 4 /\ SubSeq(content, 1, 4) # <<77, 65, 80, 49>>)
        => err = "BadMagic"

\* C2 amended: a buffer that holds the whole 60-byte header and whose first
\* four bytes are not "MAP1" fails with BadMagic whatever follows; a buffer
\* shorter than the header fails with struct.error before the magic is looked at.
C2_BadMagicFullHeader ==
    (IsVpa /\ Returned) =>
        /\ (Len(content) >= 60 /\ SubSeq(content, 1, 4) # <<77, 65, 80, 49>>)
              => (err = "BadMagic" /\ ret = NonePair /\ navmesh_base_addr = Unset)
        /\ Len(content) < 60 => (err = "struct.error" /\ ret = NonePair)

\* A complete file with vertices and triangles behind a bad tag.
C2_Witness ==
    /\ IsVpa
    /\ Returned
    /\ err = "BadMagic"
    /\ file.magic # MAP1
    /\ file.vc = MaxVertexCount
    /\ Len(file.tris) = MaxTriCount
    /\ file.len = FullLength(file)

\* The triangles of ts whose three indices are all below the vertex count.
IsValidTri(vs, t) == \A k \in 1..3 : t.vertex_indices[k] < Len(vs)
RECURSIVE ValidTris(_, _)
ValidTris(vs, ts) ==
    IF ts = <<>> THEN <<>>
    ELSE (IF IsValidTri(vs, Head(ts)) THEN <<Head(ts)>> ELSE <<>>) \o ValidTris(vs, Tail(ts))

\* C3 as stated: visualize_navmesh does not abort on a triangle with an index
\* >= the vertex count; when it is through, the polygon set holds exactly the
\* triangles whose indices are all in range, in order.
C3_DanglingTriangleSkipped ==
    (pc = "exit" /\ viz_pos >= 1) =>
        /\ outcome = "shown"
        /\ Len(polygons) = Len(ValidTris(ret[1].items, ret[2].items))
        /\ \A k \in 1..Len(polygons) :
              LET t == ValidTris(ret[1].items, ret[2].items)[k]
                  vs == ret[1].items
              IN  polygons[k] = [j \in 1..3 |->
                      <<vs[t.vertex_indices[j] + 1].x, vs[t.vertex_indices[j] + 1].y,
                        vs[t.vertex_indices[j] + 1].z>>]

\* C4: every address after the header is navmesh_base_addr + relative pointer:
\* the vertex read last is at base + verticesPtr + 8*i, TriInfo at base +
\* triInfoPtr, the triangle read last at base + trisPtr + 16*i; and files that
\* differ only in where the descriptor lies have these addresses shifted by
\* exactly that difference (the relative pointers written in the file are the
\* same for every base).
C4_PointerRelativity ==
    (IsVpa /\ navmesh_base_addr # Unset) =>
        /\ navmesh_base_addr = file.base
        /\ vertices_abs_addr # Unset =>
              /\ vertices_abs_addr = navmesh_base_addr + vertices_ptr
              /\ vertices_ptr = VerticesPtrOf([file EXCEPT !.base = 0])
        /\ (pc = "vertices" /\ Len(vertices) >= 1) =>
              /\ offset = navmesh_base_addr + vertices_ptr + 8 * (Len(vertices) - 1)
              /\ offset = file.base + VerticesPtrOf(file) + 8 * (Len(vertices) - 1)
        /\ tri_info_abs_addr # Unset =>
              /\ tri_info_abs_addr = navmesh_base_addr + tri_info_ptr
              /\ tri_info_abs_addr = file.base + TriInfoPtrOf([file EXCEPT !.base = 0])
        /\ tris_abs_addr # Unset =>
              /\ tris_abs_addr = navmesh_base_addr + tris_ptr
              /\ tris_ptr = TrisPtrOf([file EXCEPT !.base = 0])
        /\ (pc = "tris" /\ Len(tris) >= 1) =>
              /\ offset = navmesh_base_addr + tris_ptr + 16 * (Len(tris) - 1)
              /\ offset = file.base + TrisPtrOf(file) + 16 * (Len(tris) - 1)

\* The last triangle of a file whose descriptor lies 8 bytes behind the header.
C4_Witness ==
    /\ IsVpa
    /\ pc = "tris"
    /\ file.base = 68
    /\ Len(tris) = 2
    /\ Len(vertices) = 3
    /\ offset = 68 + tris_ptr + 16
    /\ tris_ptr > 0

\* The file is sound up to its triangle table, which lies last, and ends one
\* byte short of the end of its last triangle record.
C5_CutInLastTriangle ==
    /\ IsVpa
    /\ file.magic = MAP1
    /\ file.order = "vt"
    /\ Len(file.tris) >= 1
    /\ file.len = file.base + TrisPtrOf(file) + 16 * Len(file.tris) - 1

\* C5: such a file fails with struct.error (OutOfBounds) and (None, None) is
\* returned, although the records before the last triangle were all read.
C5_TruncatedLastTriangle ==
    (C5_CutInLastTriangle /\ Returned) =>
        /\ err = "struct.error"
        /\ ret = NonePair
        /\ Len(vertices) = file.vc
        /\ tri_count = Len(file.tris)
        /\ Len(tris) = tri_count - 1
        /\ offset + 16 = Len(content) + 1

C5_Witness ==
    /\ C5_CutInLastTriangle
    /\ Returned
    /\ Len(tris) = 1
    /\ Len(vertices) = 3
    /\ err = "struct.error"
    /\ pc = "exit"
    /\ outcome = "Failed to parse map file"

\* The coordinate that raw component k must decode to under the file's scale.
ScaledRaw(f, k) ==
    IF f.base = 60 THEN (IF k = 0 THEN [kind |-> "fin", m |-> 0, e |-> 0] ELSE Dyadic(k, 0))
    ELSE (IF k = 0 THEN [kind |-> "fin", m |-> 0, e |-> 0] ELSE Dyadic(k, -1))

\* C6: a successful decode returns exactly the vertexCount vertices and the
\* triCount triangles the file holds, in file order, vertex i from vertex
\* record i (scaled), triangle i with the indices, signed neighbours and
\* attribute word of triangle record i; 3 vertices and one triangle {0,1,2}
\* with passable 0 come out as 3 vertices and 1 triangle coloured Passable.
C6_ExactMesh ==
    (IsVpa /\ Returned /\ err = "") =>
        /\ ret[1].tag = "list" /\ ret[2].tag = "list"
        /\ Len(ret[1].items) = file.vc
        /\ Len(ret[1].items) = content[navmesh_base_addr + 11]
                                 + 256 * content[navmesh_base_addr + 12]
        /\ Len(ret[2].items) = Len(file.tris)
        /\ \A i \in 1..file.vc :
              /\ ret[1].items[i].x = ScaledRaw(file, i)
              /\ ret[1].items[i].y = ScaledRaw(file, -3 * i)
              /\ ret[1].items[i].z = ScaledRaw(file, 100 * (i - 1))
        /\ \A i \in 1..Len(file.tris) :
              LET t == ret[2].items[i]
                  w == TriSpec(file.tris[i], file.vc)
              IN  /\ t.vertex_indices = w.v
                  /\ t.neighbour_indices = w.n
                  /\ t.data = w.data
        /\ (file.vc = 3 /\ file.tris = <<1>>) =>
              /\ Len(ret[1].items) = 3
              /\ Len(ret[2].items) = 1
              /\ ret[2].items[1].vertex_indices = <<0, 1, 2>>
              /\ ret[2].items[1].passable = 0
              /\ get_passability_color(ret[2].items[1].passable) = "green"

\* The minimal file of the end-to-end case, decoded and drawn.
C6_Witness ==
    /\ IsVpa
    /\ pc = "exit"
    /\ err = ""
    /\ file.vc = 3
    /\ file.tris = <<1>>
    /\ Len(ret[1].items) = 3
    /\ Len(ret[2].items) = 1
    /\ colors = <<"green">>

Bit(w, b) == (w \div 2 ^ b) % 2
Flip(w, b) == IF Bit(w, b) = 1 THEN w - 2 ^ b ELSE w + 2 ^ b
\* The field of the attribute word that bit b belongs to.
FieldOfBit(b) ==
    CASE b \in 0..6 -> "passable" [] b \in 7..8 -> "battle" [] b \in 11..12 -> "location"
      [] b \in 15..16 -> "soundType" [] OTHER -> "none"

\* C7: Tri takes passable from bits 0-6, battle from bits 7-8, location from
\* bits 11-12 and soundType from bits 15-16 of the attribute word; flipping a
\* bit changes the field that owns it and no other field, and a bit outside the
\* four ranges changes none; 0x00008001 gives passable 1, battle 0, location 0,
\* soundType 1, and 0x00000180 gives passable 0, battle 3.
C7_BitfieldDecode ==
    (file.kind = "attrs" /\ pc # "tri") =>
        LET w == file.data
            t == tris[1]
        IN  /\ t.data = w
            /\ t.passable = Bit(w, 0) + 2 * Bit(w, 1) + 4 * Bit(w, 2) + 8 * Bit(w, 3)
                              + 16 * Bit(w, 4) + 32 * Bit(w, 5) + 64 * Bit(w, 6)
            /\ t.passable \in 0..127
            /\ t.battle = Bit(w, 7) + 2 * Bit(w, 8)
            /\ t.location = Bit(w, 11) + 2 * Bit(w, 12)
            /\ t.soundType = Bit(w, 15) + 2 * Bit(w, 16)
            /\ \A b \in 0..30 :
                  LET u == Tri(t.vertex_indices, t.neighbour_indices, Flip(w, b)) IN
                  /\ (u.passable # t.passable) = (FieldOfBit(b) = "passable")
                  /\ (u.battle # t.battle) = (FieldOfBit(b) = "battle")
                  /\ (u.location # t.location) = (FieldOfBit(b) = "location")
                  /\ (u.soundType # t.soundType) = (FieldOfBit(b) = "soundType")
            /\ w = 32769 =>
                  t.passable = 1 /\ t.battle = 0 /\ t.location = 0 /\ t.soundType = 1
            /\ w = 384 => t.passable = 0 /\ t.battle = 3

\* 0x00008001 decoded.
C7_Witness ==
    /\ file.kind = "attrs"
    /\ pc = "exit"
    /\ file.data = 32769
    /\ tris[1].passable = 1
    /\ tris[1].soundType = 1

\* C8: for every passable value 0..127 the colour is green for 0, red for 1,
\* orange for 2, yellow for 14, purple for 48..63 and gray for anything else.
C8_PassabilityTable ==
    (file.kind = "attrs" /\ pc = "exit") =>
        LET p == tris[1].passable
            c == colors[1]
        IN  /\ p \in 0..127
            /\ Len(colors) = 1
            /\ c \in {"green", "red", "orange", "yellow", "purple", "gray"}
            /\ (c = "green") = (p = 0)
            /\ (c = "red") = (p = 1)
            /\ (c = "orange") = (p = 2)
            /\ (c = "yellow") = (p = 14)
            /\ (c = "purple") = (48 <= p /\ p <= 63)
            /\ p \in {15, 47, 64} => c = "gray"

\* The upper end of the script range, under high bits that are set.
C8_Witness ==
    /\ file.kind = "attrs"
    /\ pc = "exit"
    /\ tris[1].passable = 63
    /\ file.data > 127
    /\ colors = <<"purple">>

\* C9: navmesh_base_addr is the little-endian u32 at byte offset 24, the third
\* 32-bit header field (the files hold 1 and 2 in the first two), and the
\* descriptor is decoded from exactly that offset: vertexCount from base+10,
\* scale from base+12, verticesPtr from base+24, triInfoPtr from base+28.
C9_ThirdHeaderField ==
    (IsVpa /\ navmesh_base_addr # Unset) =>
        /\ navmesh_base_addr = content[25] + 256 * content[26] + 65536 * content[27]
                                 + 16777216 * content[28]
        /\ navmesh_base_addr = file.base
        /\ content[17] = 1 /\ content[21] = 2
        /\ vertex_count # Unset =>
              LET b == navmesh_base_addr IN
              /\ vertex_count = content[b + 11] + 256 * content[b + 12]
              /\ vertex_count = file.vc
              /\ scale = ScaledRaw(file, 1)
              /\ vertices_ptr = content[b + 25] + 256 * content[b + 26]
                                  + 65536 * content[b + 27] + 16777216 * content[b + 28]
              /\ tri_info_ptr = content[b + 29] + 256 * content[b + 30]
                                  + 65536 * content[b + 31] + 16777216 * content[b + 32]
              /\ tri_info_ptr = TriInfoPtrOf(file)

\* The descriptor of a file whose navmesh pointer is 68 has been decoded.
C9_Witness ==
    /\ IsVpa
    /\ pc = "vertices"
    /\ navmesh_base_addr = 68
    /\ vertex_count = 3
    /\ vertices_ptr > 32

\* C10: main hands a result to visualize_navmesh only when both lists are
\* non-empty; a decode that succeeds with no vertices or no triangles ends like
\* a failed one ("Failed to parse map file") and nothing is rendered.
C10_EmptyDecodeNotRendered ==
    /\ (pc \in {"visualize", "polygons"}
          \/ outcome \in {"shown", "IndexError", "No data to visualize"}) =>
          /\ ret[1].tag = "list" /\ ret[1].items # <<>>
          /\ ret[2].tag = "list" /\ ret[2].items # <<>>
    /\ (pc = "exit" /\ Returned /\ err = "" /\ (ret[1].items = <<>> \/ ret[2].items = <<>>)) =>
          /\ outcome = "Failed to parse map file"
          /\ viz_pos = 0
          /\ polygons = <<>>
    /\ (pc = "exit" /\ Returned /\ err # "") =>
          /\ outcome = "Failed to parse map file"
          /\ viz_pos = 0
    /\ outcome # "No data to visualize"

\* A file with vertices and no triangle decodes and is then reported as failed.
C10_Witness ==
    /\ IsVpa
    /\ pc = "exit"
    /\ err = ""
    /\ ret[1].tag = "list" /\ Len(ret[1].items) = 3
    /\ ret[2] = [tag |-> "list", items |-> <<>>]
    /\ outcome = "Failed to parse map file"

====
